---- MODULE Spec2Model ----
(***************************************************************************)
(* Model of approx-string-match (src/src/index.ts): Myers' bit-vector      *)
(* approximate string matching, the match-start resolver, the region       *)
(* filter and multiSearch.                                                 *)
(*                                                                         *)
(* Strings are sequences of character codes (naturals).  Offsets into a    *)
(* string are 0-based as in the source; a TLA+ sequence is 1-based, so     *)
(* charCodeAt(i) is s[i + 1].                                              *)
(*                                                                         *)
(* A 32-bit word (an element of ctx.P, ctx.M, peq, lastRowMask) is the set *)
(* of the positions 0..31 of its set bits; the bitwise operators and the   *)
(* 32-bit addition are computed on that set, bit by bit.                   *)
(*                                                                         *)
(* An element of the Uint32Array `score` is held as the signed 32-bit      *)
(* integer with the same bits (the integers of the model checker are 32    *)
(* bits wide): the element's value is s when s >= 0 and s + 2^32 when      *)
(* s < 0.  Reads go through U32Le / U32Ge, which compare the unsigned      *)
(* value.                                                                  *)
(***************************************************************************)
EXTENDS Integers, Sequences, FiniteSets, TLC

\* ------------------------------------------------------------------------
\* Helpers of the host language
\* ------------------------------------------------------------------------

Min(a, b) == IF a < b THEN a ELSE b

Max(a, b) == IF a > b THEN a ELSE b

\* Math.ceil(a / b) for a >= 0, b > 0
CeilDiv(a, b) == (a + b - 1) \div b

Range(s) == {s[i] : i \in DOMAIN s}

\* String.prototype.slice(from, to) with 0 <= from, to
Slice(s, from, to) == SubSeq(s, from + 1, Min(to, Len(s)))

\* Mutant of reverse: the string is left as it is.
reverseNot(s) == s

\* s.split("").reverse().join("")
reverse(s) == [i \in 1..Len(s) |-> s[Len(s) + 1 - i]]

\* Word size.
w == 32

Bits == 0..(w - 1)

\* ~0
AllOnes == Bits

Not32(x) == Bits \ x

Xor32(x, y) == (x \ y) \cup (y \ x)

\* x << 1, truncated to 32 bits
Shl1(x) == {i + 1 : i \in (x \ {w - 1})}

RECURSIVE AddFrom(_, _, _, _)
AddFrom(x, y, i, c) ==
    IF i = w THEN {}
    ELSE LET s == (IF i \in x THEN 1 ELSE 0) + (IF i \in y THEN 1 ELSE 0) + c
         IN  (IF s % 2 = 1 THEN {i} ELSE {}) \cup AddFrom(x, y, i + 1, s \div 2)

\* Mutant of Add32: the bits are added without their carries.
Add32NoCarry(x, y) == Xor32(x, y)

\* (x + y) as stored back into 32 bits: the carry out of bit 31 is dropped
Add32(x, y) == AddFrom(x, y, 0, 0)

\* Read of element b of a typed array of words.  An index outside the array
\* reads `undefined`, which every bitwise operator coerces to 0.
WordAt(arr, b) == IF b \in DOMAIN arr THEN arr[b] ELSE {}

\* Write of element b of a typed array: ignored outside the array.
SetAt(arr, b, v) == IF b \in DOMAIN arr THEN [arr EXCEPT ![b] = v] ELSE arr

\* score[b] <= n and score[b] >= n on the unsigned value of the element; an
\* index outside the array reads undefined, and every comparison with it is
\* false.
U32Le(score, b, n) == b \in DOMAIN score /\ score[b] >= 0 /\ score[b] <= n

U32Ge(score, b, n) == b \in DOMAIN score /\ (score[b] < 0 \/ score[b] >= n)

\* ------------------------------------------------------------------------
\* advanceBlock
\* ------------------------------------------------------------------------

\* One block of one column.  ctx is [P, M, lastRowMask]; the result carries
\* the horizontal output delta and the updated ctx.P, ctx.M.
advanceBlock(ctx, peq, b, hIn) ==
    LET pV == WordAt(ctx.P, b)
        mV == WordAt(ctx.M, b)
        eq0 == WordAt(peq, b)
        xV == eq0 \cup mV
        eq == IF hIn < 0 THEN eq0 \cup {0} ELSE eq0
        \* undefined + undefined is NaN, which ^ coerces to 0
        sum == IF b \in DOMAIN ctx.P THEN Add32(eq \cap pV, pV) ELSE {}
        xH == Xor32(sum, pV) \cup eq
        pH == mV \cup Not32(xH \cup pV)
        mH == pV \cap xH
        last == WordAt(ctx.lastRowMask, b)
        hOut == IF (pH \cap last) # {} THEN 1
                ELSE IF (mH \cap last) # {} THEN -1
                ELSE 0
        pH1 == IF hIn > 0 THEN Shl1(pH) \cup {0} ELSE Shl1(pH)
        mH1 == IF hIn < 0 THEN Shl1(mH) \cup {0} ELSE Shl1(mH)
        pV1 == mH1 \cup Not32(xV \cup pH1)
        mV1 == pH1 \cap xV
    IN  [hOut |-> hOut, P |-> SetAt(ctx.P, b, pV1), M |-> SetAt(ctx.M, b, mV1)]


\* ------------------------------------------------------------------------
\* Pattern context (findMatchEnds, lines 209-258)
\* ------------------------------------------------------------------------

\* Index of maximum block level for a pattern of length len > 0.
bMaxOf(len) == CeilDiv(len, w) - 1

\* ctx.lastRowMask: bit 31 in every block but the last, whose bit is that of
\* the last row of the pattern.
LastRowMask(len) ==
    [b \in 0..bMaxOf(len) |-> IF b = bMaxOf(len) THEN {(len - 1) % w} ELSE {w - 1}]

\* new Uint32Array(bMax + 1) of words: all zero
ZeroWords(len) == [b \in 0..bMaxOf(len) |-> {}]

\* ctx.peq.get(val) for a character of the pattern: bit r of block b is set
\* where pattern[b * w + r] is val; indexes beyond the pattern stay clear.
BuildPeq(pattern, val) ==
    [b \in 0..bMaxOf(Len(pattern)) |->
        {r \in Bits : b * w + r < Len(pattern) /\ pattern[b * w + r + 1] = val}]

\* The peq array used for text character ch: the map entry, or emptyPeq when
\* the pattern does not contain ch.
LookupPeq(pattern, ch) ==
    IF ch \in Range(pattern) THEN BuildPeq(pattern, ch) ELSE ZeroWords(Len(pattern))

\* ------------------------------------------------------------------------
\* One column of the block-based scan (findMatchEnds lines 291-325, repeated
\* verbatim in findMatchRegions lines 471-502)
\* ------------------------------------------------------------------------

\* score[b] += carry; a write outside the array is ignored
AddScore(score, b, carry) ==
    IF b \in DOMAIN score THEN [score EXCEPT ![b] = score[b] + carry] ELSE score

\* for (b = 0; b <= y; b += 1) { carry = advanceBlock(ctx, peq, b, carry);
\*                               score[b] += carry; }
RECURSIVE AdvanceBlocks(_, _, _, _, _, _)
\* a is the result of advanceBlock for block b: the rest of the loop
AfterBlock(a, ctx, peq, score, b, y) ==
    AdvanceBlocks([ctx EXCEPT !.P = a.P, !.M = a.M], peq,
                  AddScore(score, b, a.hOut), b + 1, y, a.hOut)

AdvanceBlocks(ctx, peq, score, b, y, carry) ==
    IF b > y THEN [P |-> ctx.P, M |-> ctx.M, score |-> score, carry |-> carry]
    ELSE AfterBlock(advanceBlock(ctx, peq, b, carry), ctx, peq, score, b, y)

\* const maxBlockScore = y === bMax ? pattern.length % w : w;
maxBlockScore(y, bMax, len) == IF y = bMax THEN len % w ELSE w

\* while (y > 0 && score[y] >= maxErrors + w) { y -= 1; }
RECURSIVE ShrinkWindow(_, _, _)
ShrinkWindow(y, score, maxErrors) ==
    IF y > 0 /\ U32Ge(score, y, maxErrors + w)
    THEN ShrinkWindow(y - 1, score, maxErrors)
    ELSE y

\* The window grows by one block (lines 306-318).  a is the state after the
\* blocks 0..y, n the result of advanceBlock for the new block y + 1.
GrowWindow(st, a, n, bMax, len) ==
    [st EXCEPT !.y = st.y + 1, !.P = n.P, !.M = n.M,
               !.score = [a.score EXCEPT ![st.y + 1] =
                   a.score[st.y] + maxBlockScore(st.y + 1, bMax, len)
                   - a.carry + n.hOut]]

\* The test that follows the blocks 0..y of a column (lines 299-325): the
\* window grows by one block, or is reduced.
AdjustWindow(st, a, peq, lastRowMask, bMax, len) ==
    IF /\ U32Le(a.score, st.y, st.maxErrors + a.carry)
       /\ st.y < bMax
       /\ (0 \in WordAt(peq, st.y + 1) \/ a.carry < 0)
    THEN GrowWindow(st, a,
                    advanceBlock([P |-> SetAt(a.P, st.y + 1, AllOnes),
                                  M |-> SetAt(a.M, st.y + 1, {}),
                                  lastRowMask |-> lastRowMask],
                                 peq, st.y + 1, a.carry),
                    bMax, len)
    ELSE [st EXCEPT !.y = ShrinkWindow(st.y, a.score, st.maxErrors),
                    !.P = a.P, !.M = a.M, !.score = a.score]

\* One column: the blocks 0..y, then the growth or the reduction of the
\* window.  st has the fields y, P, M, score, maxErrors.
WindowStep(st, peq, lastRowMask, bMax, len) ==
    AdjustWindow(st,
                 AdvanceBlocks([P |-> st.P, M |-> st.M, lastRowMask |-> lastRowMask],
                               peq, st.score, 0, st.y, 0),
                 peq, lastRowMask, bMax, len)

\* ------------------------------------------------------------------------
\* findMatchEnds
\* ------------------------------------------------------------------------

\* Mutant of ClampErrors: the budget is used as given.
ClampErrorsNone(maxErrors, len) == maxErrors

\* maxErrors = Math.min(maxErrors, pattern.length)
ClampErrors(maxErrors, len) == Min(maxErrors, len)

\* let y = Math.max(0, Math.ceil(maxErrors / w) - 1)
InitialY(maxErrors) == Max(0, CeilDiv(maxErrors, w) - 1)

\* The locals of findMatchEnds after the context is built (lines 202-258) for
\* a non-empty pattern: the clamped budget, no match, zeroed arrays.
NewScan(pattern, maxErrors) ==
    [maxErrors |-> ClampErrors(maxErrors, Len(pattern)),
     matches |-> << >>,
     y |-> 0,
     P |-> ZeroWords(Len(pattern)),
     M |-> ZeroWords(Len(pattern)),
     score |-> [b \in 0..bMaxOf(Len(pattern)) |-> 0]]

\* Mutant of ResetWindow: y and score are reset, the vertical deltas are not.
ResetWindowKeepDeltas(len, st) ==
    [st EXCEPT
       !.y = InitialY(st.maxErrors),
       !.score = [b \in DOMAIN st.score |->
                     IF b = bMaxOf(len) THEN len
                     ELSE IF b <= InitialY(st.maxErrors) THEN (b + 1) * w
                     ELSE st.score[b]]]

\* Start of a region (findMatchEnds lines 263-279; findMatchRegions lines
\* 445-459 runs the same code once, before its scan): y, score, ctx.P and
\* ctx.M of the blocks 0..y are reset for a pattern of length len; the other
\* elements keep what they held.
ResetWindow(len, st) ==
    LET y == InitialY(st.maxErrors)
        bMax == bMaxOf(len)
    IN  [st EXCEPT
           !.y = y,
           !.score = [b \in DOMAIN st.score |->
                         IF b = bMax THEN len
                         ELSE IF b <= y THEN (b + 1) * w
                         ELSE st.score[b]],
           !.P = [b \in DOMAIN st.P |-> IF b <= y THEN AllOnes ELSE st.P[b]],
           !.M = [b \in DOMAIN st.M |-> IF b <= y THEN {} ELSE st.M[b]]]

\* Mutant of ReportMatch: the score of the last block is not compared with
\* the budget.
ReportMatchNoThreshold(st, bMax, j) ==
    IF st.y = bMax
    THEN [st EXCEPT
            !.matches = Append(IF st.score[st.y] < st.maxErrors THEN << >> ELSE @,
                               [start |-> -1, end |-> j + 1, errors |-> st.score[st.y]]),
            !.maxErrors = st.score[st.y]]
    ELSE st

\* Mutant of ReportMatch: the budget is not lowered to the errors of a match.
ReportMatchNoRatchet(st, bMax, j) ==
    IF st.y = bMax /\ U32Le(st.score, st.y, st.maxErrors)
    THEN [st EXCEPT
            !.matches = Append(IF st.score[st.y] < st.maxErrors THEN << >> ELSE @,
                               [start |-> -1, end |-> j + 1, errors |-> st.score[st.y]])]
    ELSE st

\* Mutant of ReportMatch: the matches found before a better one are kept.
ReportMatchKeepAll(st, bMax, j) ==
    IF st.y = bMax /\ U32Le(st.score, st.y, st.maxErrors)
    THEN [st EXCEPT
            !.matches = Append(@, [start |-> -1, end |-> j + 1,
                                   errors |-> st.score[st.y]]),
            !.maxErrors = st.score[st.y]]
    ELSE st

\* The match test of column j (lines 327-345), with the ratchet.
ReportMatch(st, bMax, j) ==
    IF st.y = bMax /\ U32Le(st.score, st.y, st.maxErrors)
    THEN [st EXCEPT
            !.matches = Append(IF st.score[st.y] < st.maxErrors THEN << >> ELSE @,
                               [start |-> -1, end |-> j + 1, errors |-> st.score[st.y]]),
            !.maxErrors = st.score[st.y]]
    ELSE st

\* The body of the loop over the text for column j (lines 283-346).
ScanColumn(text, pattern, st, j) ==
    ReportMatch(WindowStep(st, LookupPeq(pattern, text[j + 1]),
                           LastRowMask(Len(pattern)), bMaxOf(Len(pattern)),
                           Len(pattern)),
                bMaxOf(Len(pattern)), j)

\* for (let j = region.start; j < region.end; j += 1): next is the state after
\* column j - 1, computed before the loop goes on.
RECURSIVE ScanFrom(_, _, _, _, _)
ScanFrom(text, pattern, next, j, end) ==
    IF next.y = next.y /\ j < end
    THEN ScanFrom(text, pattern, ScanColumn(text, pattern, next, j), j + 1, end)
    ELSE next

RECURSIVE ScanRegions(_, _, _, _, _)
ScanRegions(text, pattern, st, regions, r) ==
    IF st.y = st.y /\ r <= Len(regions)
    THEN ScanRegions(text, pattern,
                     ScanFrom(text, pattern, ResetWindow(Len(pattern), st),
                              regions[r].start, regions[r].end),
                     regions, r + 1)
    ELSE st

\* regions: Region[] = [{ start: 0, end: text.length }]
WholeText(text) == << [start |-> 0, end |-> Len(text)] >>

\* Ends and error counts of the matches of pattern in the regions of text.
findMatchEnds(text, pattern, maxErrors, regions) ==
    IF Len(pattern) = 0 THEN << >>
    ELSE ScanRegions(text, pattern, NewScan(pattern, maxErrors), regions, 1).matches

\* ------------------------------------------------------------------------
\* findMatchStarts
\* ------------------------------------------------------------------------

\* Mutant of ReduceStart: the first match of the reversed search decides.
ReduceStartFirst(rms, i, end, min) ==
    IF Len(rms) = 0 THEN min ELSE end - rms[1].end

\* reduce((min, rm) => m.end - rm.end < min ? m.end - rm.end : min, m.end)
RECURSIVE ReduceStart(_, _, _, _)
ReduceStart(rms, i, end, min) ==
    IF i > Len(rms) THEN min
    ELSE ReduceStart(rms, i + 1, end,
                     IF end - rms[i].end < min THEN end - rms[i].end ELSE min)

\* The start of one match end m: a search of the reversed pattern in the
\* reversed slice of the text that precedes m.end.
\* textRev: the reversed slice of the text that can hold the match
ReversedSlice(text, pattern, m) ==
    reverse(Slice(text, Max(0, m.end - Len(pattern) - m.errors), m.end))

ResolveStart(text, pattern, m) ==
    [start |-> ReduceStart(findMatchEnds(ReversedSlice(text, pattern, m),
                                         reverse(pattern), m.errors,
                                         WholeText(ReversedSlice(text, pattern, m))),
                           1, m.end, m.end),
     end |-> m.end,
     errors |-> m.errors]

\* Mutant of findMatchStarts: the matches come out last first.
findMatchStartsReversed(text, pattern, matches) ==
    [i \in 1..Len(matches) |->
        ResolveStart(text, pattern, matches[Len(matches) + 1 - i])]

\* matches.map(m => ...): one match per match end, in the same order
findMatchStarts(text, pattern, matches) ==
    [i \in 1..Len(matches) |-> ResolveStart(text, pattern, matches[i])]

\* search(text, pattern, maxErrors) as a function of its arguments
search(text, pattern, maxErrors) ==
    findMatchStarts(text, pattern, findMatchEnds(text, pattern, maxErrors, WholeText(text)))


\* ------------------------------------------------------------------------
\* findMatchRegions
\* ------------------------------------------------------------------------

RECURSIVE MinLen(_, _)
MinLen(patterns, i) ==
    IF i = Len(patterns) THEN Len(patterns[i])
    ELSE Min(Len(patterns[i]), MinLen(patterns, i + 1))

RECURSIVE MaxLen(_, _)
MaxLen(patterns, i) ==
    IF i = Len(patterns) THEN Len(patterns[i])
    ELSE Max(Len(patterns[i]), MaxLen(patterns, i + 1))

\* Math.min(...patterns.map(p => p.length)) of a non-empty list
minPatternLen(patterns) == MinLen(patterns, 1)

\* Math.max(...patterns.map(p => p.length)) of a non-empty list
maxPatternLen(patterns) == MaxLen(patterns, 1)

\* The characters of patterns.join("")
CombinedChars(patterns) == UNION {Range(patterns[i]) : i \in DOMAIN patterns}

\* ctx.peq.get(val) of the superimposed pattern: bit r of block b is set
\* where some pattern has val at b * w + r or ends before that index.
BuildCombinedPeq(patterns, val) ==
    [b \in 0..bMaxOf(maxPatternLen(patterns)) |->
        {r \in Bits :
            /\ b * w + r < maxPatternLen(patterns)
            /\ \E i \in DOMAIN patterns :
                  \/ Len(patterns[i]) <= b * w + r
                  \/ patterns[i][b * w + r + 1] = val}]

\* Mutant of CombinedEmptyPeq: the array is left zeroed.
CombinedEmptyPeqZero(patterns) ==
    [b \in 0..bMaxOf(maxPatternLen(patterns)) |-> {}]

\* emptyPeq of the region filter: the bits minPatternLen..maxPatternLen - 1
CombinedEmptyPeq(patterns) ==
    [b \in 0..bMaxOf(maxPatternLen(patterns)) |->
        {r \in Bits : /\ minPatternLen(patterns) <= b * w + r
                      /\ b * w + r < maxPatternLen(patterns)}]

LookupCombinedPeq(patterns, ch) ==
    IF ch \in CombinedChars(patterns) THEN BuildCombinedPeq(patterns, ch)
    ELSE CombinedEmptyPeq(patterns)

\* The locals of findMatchRegions before its scan (lines 372-459) for a
\* non-empty list of patterns.
NewFilter(patterns, maxErrors) ==
    ResetWindow(maxPatternLen(patterns),
        [maxErrors |-> Min(maxErrors, maxPatternLen(patterns)),
         regions |-> << >>,
         y |-> 0,
         P |-> ZeroWords(maxPatternLen(patterns)),
         M |-> ZeroWords(maxPatternLen(patterns)),
         score |-> [b \in 0..bMaxOf(maxPatternLen(patterns)) |-> 0]])

\* Mutant of ReportRegion: every column that qualifies adds a region; none is
\* merged with the previous one.
ReportRegionNoMerge(st, bMax, len, j) ==
    IF st.y = bMax /\ U32Le(st.score, st.y, st.maxErrors)
    THEN [st EXCEPT !.regions =
             Append(@, [start |-> Max(0, j + 1 - len - st.score[st.y]),
                        end |-> j + 1])]
    ELSE st

\* Mutant of ReportRegion: a region that starts where the previous one ends
\* is not merged with it.
ReportRegionMergeStrict(st, bMax, len, j) ==
    IF st.y = bMax /\ U32Le(st.score, st.y, st.maxErrors)
    THEN IF /\ Len(st.regions) > 0
            /\ st.regions[Len(st.regions)].end > Max(0, j + 1 - len - st.score[st.y])
         THEN [st EXCEPT !.regions[Len(st.regions)].end = j + 1]
         ELSE [st EXCEPT !.regions =
                  Append(@, [start |-> Max(0, j + 1 - len - st.score[st.y]),
                             end |-> j + 1])]
    ELSE st

\* The region test of column j (lines 504-517): a new region, or the
\* previous one extended when they overlap.
ReportRegion(st, bMax, len, j) ==
    IF st.y = bMax /\ U32Le(st.score, st.y, st.maxErrors)
    THEN IF /\ Len(st.regions) > 0
            /\ st.regions[Len(st.regions)].end >= Max(0, j + 1 - len - st.score[st.y])
         THEN [st EXCEPT !.regions[Len(st.regions)].end = j + 1]
         ELSE [st EXCEPT !.regions =
                  Append(@, [start |-> Max(0, j + 1 - len - st.score[st.y]),
                             end |-> j + 1])]
    ELSE st

\* The body of the loop over the text for column j (lines 463-518).
FilterColumnStep(text, patterns, st, j) ==
    ReportRegion(WindowStep(st, LookupCombinedPeq(patterns, text[j + 1]),
                            LastRowMask(maxPatternLen(patterns)),
                            bMaxOf(maxPatternLen(patterns)), maxPatternLen(patterns)),
                 bMaxOf(maxPatternLen(patterns)), maxPatternLen(patterns), j)

\* for (let j = 0; j < text.length; j += 1): next is the state after column
\* j - 1, computed before the loop goes on.
RECURSIVE FilterFrom(_, _, _, _)
FilterFrom(text, patterns, next, j) ==
    IF next.y = next.y /\ j < Len(text)
    THEN FilterFrom(text, patterns, FilterColumnStep(text, patterns, next, j), j + 1)
    ELSE next

findMatchRegions(text, patterns, maxErrors) ==
    IF Len(patterns) = 0 THEN << >>
    ELSE FilterFrom(text, patterns, NewFilter(patterns, maxErrors), 0).regions

\* ------------------------------------------------------------------------
\* multiSearch
\* ------------------------------------------------------------------------

\* patterns.reduce((n, p) => Math.max(p.maxErrors, n), 0)
RECURSIVE MaxErrorsFrom(_, _)
MaxErrorsFrom(configs, i) ==
    IF i > Len(configs) THEN 0
    ELSE Max(configs[i].maxErrors, MaxErrorsFrom(configs, i + 1))

maxErrorCount(configs) == MaxErrorsFrom(configs, 1)

PatternsOf(configs) == [i \in 1..Len(configs) |-> configs[i].pattern]

\* multiSearch(text, patterns) as a function of its arguments: the list of
\* the match lists and the regions attached to it
SearchRegions(text, configs, regions) ==
    [matches |-> [i \in 1..Len(configs) |->
                    findMatchStarts(text, configs[i].pattern,
                        findMatchEnds(text, configs[i].pattern,
                                      configs[i].maxErrors, regions))],
     regions |-> regions]

multiSearch(text, configs) ==
    SearchRegions(text, configs,
                  findMatchRegions(text, PatternsOf(configs), maxErrorCount(configs)))


\* ------------------------------------------------------------------------
\* Inputs
\* ------------------------------------------------------------------------

\* Longest short pattern, longest short text.
MaxPatLen == 3

MaxTextLen == 4

\* Number of blocks of the longest pattern.
MaxBlocks == 2

\* Character codes of "a" and "b"
Alphabet == {97, 98}

RECURSIVE StringsOfLen(_)
StringsOfLen(n) ==
    IF n = 0 THEN {<< >>}
    ELSE {Append(s, c) : s \in StringsOfLen(n - 1), c \in Alphabet}

StringsUpTo(n) == UNION {StringsOfLen(i) : i \in 0..n}

\* seed repeated up to n characters
Cycle(seed, n) == [i \in 1..n |-> seed[((i - 1) % Len(seed)) + 1]]

Seeds == {<<97>>, <<97, 98>>}

\* Lengths around the block boundaries
LongLens == UNION {{b * w - 1, b * w, b * w + 1} : b \in 1..MaxBlocks}

\* Short inputs: every pattern and text over the alphabet, every budget up to
\* one more than the pattern's length, and one a word size above it.
ShortInputs ==
    {[text |-> t, pattern |-> p, maxErrors |-> k] :
        t \in StringsUpTo(MaxTextLen), p \in StringsUpTo(MaxPatLen),
        k \in 0..(MaxPatLen + 1) \cup {MaxPatLen + w}}

\* The other seed
OtherSeed(seed) == IF seed = <<97>> THEN <<97, 98>> ELSE <<97>>

\* The texts searched for the periodic pattern of seed ps and length len: the
\* pattern and a character more; another character and the pattern less a
\* character; a word size of the pattern; as many characters as the pattern
\* has, of the other period.
LongTexts(ps, len) ==
    {Cycle(ps, len + 1),
     <<98>> \o Cycle(ps, len - 1),
     Cycle(ps, w),
     Cycle(OtherSeed(ps), len)}

\* Long inputs: a periodic pattern of a length around a block boundary, with
\* no budget, a small one and one a word size above the pattern's length.
LongInputsOf(len) ==
    UNION {{[text |-> t, pattern |-> Cycle(ps, len), maxErrors |-> b] :
               t \in LongTexts(ps, len), b \in {0, 2, len + w}} : ps \in Seeds}

LongInputs == UNION {LongInputsOf(len) : len \in LongLens}

\* "Four score and seven"
FourScore ==
    <<70, 111, 117, 114, 32, 115, 99, 111, 114, 101, 32, 97, 110, 100, 32,
      115, 101, 118, 101, 110>>

\* "annd"
Annd == <<97, 110, 110, 100>>

\* The call of the usage example: search(text, pattern, 2)
UsageInput == [text |-> FourScore, pattern |-> Annd, maxErrors |-> 2]

\* Calls made one after the other: longest text, longest pattern, number of
\* calls.
CallTextLen == 2

CallPatLen == 2

MaxCalls == 2

\* Calls of search
CallInputs ==
    {[text |-> t, configs |-> << [pattern |-> p, maxErrors |-> b] >>] :
        t \in StringsUpTo(CallTextLen), p \in StringsUpTo(CallPatLen), b \in {0, 1}}

\* Calls of multiSearch, for two patterns of one character
CallMultiInputs ==
    {[text |-> t, configs |-> << [pattern |-> <<c1>>, maxErrors |-> 0],
                                 [pattern |-> <<c2>>, maxErrors |-> 1] >>] :
        t \in StringsUpTo(CallTextLen), c1 \in Alphabet, c2 \in Alphabet}

\* Inputs of multiSearch: longest text, longest pattern, largest budget.
MultiTextLen == 3

MultiPatLen == 2

MultiMaxErrors == 1

NonEmptyUpTo(n) == StringsUpTo(n) \ {<< >>}

\* Two patterns with a budget each, in every short text
PairInputs ==
    {[text |-> t,
      configs |-> << [pattern |-> p1, maxErrors |-> k1],
                     [pattern |-> p2, maxErrors |-> k2] >>] :
        t \in StringsUpTo(MultiTextLen),
        p1 \in NonEmptyUpTo(MultiPatLen), k1 \in 0..MultiMaxErrors,
        p2 \in NonEmptyUpTo(MultiPatLen), k2 \in {0, MultiMaxErrors}}

\* "one two three four five six"
SixWords ==
    <<111, 110, 101, 32, 116, 119, 111, 32, 116, 104, 114, 101, 101, 32,
      102, 111, 117, 114, 32, 102, 105, 118, 101, 32, 115, 105, 120>>

\* "one", "twwo" and "fivve", with up to 2 errors each
SixWordsConfigs ==
    << [pattern |-> <<111, 110, 101>>, maxErrors |-> 2],
       [pattern |-> <<116, 119, 119, 111>>, maxErrors |-> 2],
       [pattern |-> <<102, 105, 118, 118, 101>>, maxErrors |-> 2] >>

\* "axxxxxab", searched for "ab" with up to 1 error and for "bb": the filter
\* flags the regions [0, 2) and [4, 8), and the best match of "ab" ends in
\* the second.
TwoRegionsInput ==
    [text |-> <<97, 120, 120, 120, 120, 120, 97, 98>>,
     configs |-> << [pattern |-> <<97, 98>>, maxErrors |-> 1],
                    [pattern |-> <<98, 98>>, maxErrors |-> 0] >>]

\* A pattern of two blocks and one of a block and a character, in a text
\* of a block and a character
LongMultiInput ==
    [text |-> Cycle(<<97>>, w + 1),
     configs |-> << [pattern |-> Cycle(<<97>>, 2 * w), maxErrors |-> 2],
                    [pattern |-> Cycle(<<97, 98>>, w + 1), maxErrors |-> 0] >>]

\* A pattern of three blocks, "abab...a" of two words and a character, with
\* up to 1 error, in a text that holds it twice, four characters apart, the
\* first time with its first character changed: the filter flags two
\* regions.
ThreeBlocksInput ==
    [text |-> <<98>> \o Cycle(<<98, 97>>, 2 * w) \o <<120, 120, 120, 120>>
              \o Cycle(<<97, 98>>, 2 * w + 1),
     configs |-> << [pattern |-> Cycle(<<97, 98>>, 2 * w + 1), maxErrors |-> 1] >>]

MultiInputs ==
    PairInputs \cup {[text |-> SixWords, configs |-> SixWordsConfigs],
                     TwoRegionsInput, LongMultiInput, ThreeBlocksInput,
                     [text |-> <<97, 98>>,
                      configs |-> << [pattern |-> << >>, maxErrors |-> 1] >>],
                     [text |-> <<97>>, configs |-> << >>],
                     [text |-> <<97, 98>>,
                      configs |-> << [pattern |-> << >>, maxErrors |-> 0],
                                     [pattern |-> <<98>>, maxErrors |-> 0] >>]}

\* ------------------------------------------------------------------------
\* State
\* ------------------------------------------------------------------------

VARIABLES
    text,       \* the text searched
    configs,    \* the patterns with their budgets: search has one
    pc,         \* the function that runs next
    regions,    \* the regions scanned by findMatchEnds
    pidx,       \* index (from 1) of the pattern being searched
    st,         \* locals of the running scan: y, P, M, score, maxErrors and
                \* matches (findMatchEnds) or regions (findMatchRegions)
    r,          \* index (from 1) of the region being scanned
    j,          \* column: offset of the next character of the text
    result,     \* the match lists returned so far, one per pattern
    calls       \* number of calls of search and multiSearch made so far

vars == <<text, configs, pc, regions, pidx, st, r, j, result, calls>>

pattern == configs[pidx].pattern

\* Mutant of Idle: an empty pattern matches at offset 0 with no error.
IdleMatchAtZero ==
    [maxErrors |-> 0, matches |-> << [start |-> -1, end |-> 0, errors |-> 0] >>,
     y |-> 0, P |-> << >>, M |-> << >>, score |-> << >>]

\* No scan is running, and what findMatchEnds returns for an empty pattern:
\* no match.
Idle == [maxErrors |-> 0, matches |-> << >>, y |-> 0, P |-> << >>, M |-> << >>,
         score |-> << >>]

InitOf(in) ==
    /\ text = in.text
    /\ configs = << [pattern |-> in.pattern, maxErrors |-> in.maxErrors] >>
    /\ pc = "findMatchEnds"
    /\ regions = WholeText(in.text)
    /\ pidx = 1
    /\ st = Idle
    /\ r = 1
    /\ j = 0
    /\ result = << >>
    /\ calls = 1

\* A call of search(text, pattern, maxErrors)
Init == \E in \in ShortInputs \cup LongInputs \cup {UsageInput} : InitOf(in)

\* A call of multiSearch(text, configs)
InitMulti ==
    \E in \in MultiInputs :
        /\ text = in.text
        /\ configs = in.configs
        /\ pc = "findMatchRegions"
        /\ regions = << >>
        /\ pidx = 1
        /\ st = Idle
        /\ r = 1
        /\ j = 0
        /\ result = << >>
    /\ calls = 1

\* ------------------------------------------------------------------------
\* Actions
\* ------------------------------------------------------------------------

\* Mutant of EnterFindMatchEnds: the list of matches is shared by the calls
\* and is not emptied.
EnterFindMatchEndsSharedMatches ==
    /\ pc = "findMatchEnds"
    /\ IF Len(pattern) = 0
       THEN /\ st' = Idle
            /\ pc' = "findMatchStarts"
       ELSE /\ st' = [NewScan(pattern, configs[pidx].maxErrors) EXCEPT
                         !.matches = IF "matches" \in DOMAIN st THEN st.matches
                                     ELSE << >>]
            /\ pc' = "region"
    /\ r' = 1
    /\ j' = 0
    /\ UNCHANGED <<text, configs, regions, pidx, result, calls>>

\* findMatchEnds up to its loop over the regions (lines 196-258)
EnterFindMatchEnds ==
    /\ pc = "findMatchEnds"
    /\ IF Len(pattern) = 0
       THEN /\ st' = Idle
            /\ pc' = "findMatchStarts"
       ELSE /\ st' = NewScan(pattern, configs[pidx].maxErrors)
            /\ pc' = "region"
    /\ r' = 1
    /\ j' = 0
    /\ UNCHANGED <<text, configs, regions, pidx, result, calls>>

\* Head of the loop over the regions and the reset of a region (lines 260-279)
BeginRegion ==
    /\ pc = "region"
    /\ IF r > Len(regions)
       THEN /\ pc' = "findMatchStarts"
            /\ UNCHANGED <<st, j>>
       ELSE /\ st' = ResetWindow(Len(pattern), st)
            /\ j' = regions[r].start
            /\ pc' = "column"
    /\ UNCHANGED <<text, configs, regions, pidx, r, result, calls>>

\* Mutant of Column: the loop advances the start of the region itself.
ColumnAdvancesRegion ==
    /\ pc = "column"
    /\ IF j < regions[r].end
       THEN /\ st' = ScanColumn(text, pattern, st, j)
            /\ j' = j + 1
            /\ regions' = [regions EXCEPT ![r].start = j + 1]
            /\ UNCHANGED <<pc, r>>
       ELSE /\ r' = r + 1
            /\ pc' = "region"
            /\ UNCHANGED <<st, j, regions>>
    /\ UNCHANGED <<text, configs, pidx, result, calls>>

\* One turn of the loop over the characters of a region (lines 283-346)
Column ==
    /\ pc = "column"
    /\ IF j < regions[r].end
       THEN /\ st' = ScanColumn(text, pattern, st, j)
            /\ j' = j + 1
            /\ UNCHANGED <<pc, r>>
       ELSE /\ r' = r + 1
            /\ pc' = "region"
            /\ UNCHANGED <<st, j>>
    /\ UNCHANGED <<text, configs, regions, pidx, result, calls>>

\* findMatchStarts on the match ends found, and the return to the caller
\* (lines 76-101, 559-564, 578-579)
FindMatchStarts ==
    /\ pc = "findMatchStarts"
    /\ result' = Append(result, findMatchStarts(text, pattern, st.matches))
    /\ IF pidx < Len(configs)
       THEN /\ pidx' = pidx + 1
            /\ pc' = "findMatchEnds"
       ELSE /\ pc' = "done"
            /\ UNCHANGED pidx
    /\ UNCHANGED <<text, configs, regions, st, r, j, calls>>

\* multiSearch up to the loop of findMatchRegions over the text (lines
\* 553-558, 368-459); without a pattern findMatchRegions returns no region
\* and multiSearch an empty list.
EnterFindMatchRegions ==
    /\ pc = "findMatchRegions"
    /\ IF Len(configs) = 0
       THEN /\ pc' = "done"
            /\ st' = Idle
       ELSE /\ pc' = "filterColumn"
            /\ st' = NewFilter(PatternsOf(configs), maxErrorCount(configs))
    /\ j' = 0
    /\ UNCHANGED <<text, configs, regions, pidx, r, result, calls>>

\* One turn of the loop of findMatchRegions over the text (lines 463-518),
\* and its return to multiSearch (lines 520, 559)
FilterColumn ==
    /\ pc = "filterColumn"
    /\ IF j < Len(text)
       THEN /\ st' = FilterColumnStep(text, PatternsOf(configs), st, j)
            /\ j' = j + 1
            /\ UNCHANGED <<pc, regions>>
       ELSE /\ regions' = st.regions
            /\ pc' = "findMatchEnds"
            /\ UNCHANGED <<st, j>>
    /\ UNCHANGED <<text, configs, pidx, r, result, calls>>

Next == EnterFindMatchEnds \/ BeginRegion \/ Column \/ FindMatchStarts

Spec == Init /\ [][Next]_vars

NextMulti == EnterFindMatchRegions \/ FilterColumn \/ Next

SpecMulti == InitMulti /\ [][NextMulti]_vars

\* The caller calls search again once a call has returned.  The locals of
\* the call that returned (st, r, j) are left as they are: the new call
\* makes its own.
AnotherSearch ==
    /\ pc = "done"
    /\ calls < MaxCalls
    /\ \E in \in CallInputs :
          /\ text' = in.text
          /\ configs' = in.configs
          /\ regions' = WholeText(in.text)
    /\ pc' = "findMatchEnds"
    /\ pidx' = 1
    /\ result' = << >>
    /\ calls' = calls + 1
    /\ UNCHANGED <<st, r, j>>

\* The caller calls multiSearch once a call has returned.
AnotherMultiSearch ==
    /\ pc = "done"
    /\ calls < MaxCalls
    /\ \E in \in CallMultiInputs :
          /\ text' = in.text
          /\ configs' = in.configs
    /\ regions' = << >>
    /\ pc' = "findMatchRegions"
    /\ pidx' = 1
    /\ result' = << >>
    /\ calls' = calls + 1
    /\ UNCHANGED <<st, r, j>>

\* The first of the calls
InitCalls ==
    \/ \E in \in CallInputs :
          InitOf([text |-> in.text, pattern |-> in.configs[1].pattern,
                  maxErrors |-> in.configs[1].maxErrors])
    \/ /\ \E in \in CallMultiInputs : text = in.text /\ configs = in.configs
       /\ pc = "findMatchRegions"
       /\ regions = << >>
       /\ pidx = 1
       /\ st = Idle
       /\ r = 1
       /\ j = 0
       /\ result = << >>
       /\ calls = 1

NextCalls == AnotherSearch \/ AnotherMultiSearch \/ NextMulti

SpecCalls == InitCalls /\ [][NextCalls]_vars

\* A call of search or a call of multiSearch
InitAll == Init \/ InitMulti

SpecAll == InitAll /\ [][NextMulti]_vars


\* ------------------------------------------------------------------------
\* Reference: unit-cost edit distance by dynamic programming
\* ------------------------------------------------------------------------

Min3(a, b, c) == Min(a, Min(b, c))

\* The column of the matrix for text character c, given the previous column
\* prev; rows 0..Len(p) are the elements 1..Len(p) + 1, and acc holds the rows
\* computed so far (row 0 at least).
RECURSIVE RefColumn(_, _, _, _)
RefColumn(p, c, prev, acc) ==
    IF Len(acc) = Len(p) + 1 THEN acc
    ELSE RefColumn(p, c, prev,
                   Append(acc, Min3(prev[Len(acc) + 1] + 1,
                                    acc[Len(acc)] + 1,
                                    prev[Len(acc)] + (IF p[Len(acc)] = c THEN 0 ELSE 1))))

\* The last row D[Len(p)][0..Len(t)] as a sequence.  anchored: row 0 is
\* D[0][j] = j (distance to the whole prefix of t); otherwise D[0][j] = 0
\* (distance to the best substring of t that ends at j).
RECURSIVE RefLastRow(_, _, _, _, _, _)
RefLastRow(p, t, anchored, jj, col, out) ==
    IF col[1] = col[1] /\ jj <= Len(t)
    THEN RefLastRow(p, t, anchored, jj + 1,
                    RefColumn(p, t[jj], col, << IF anchored THEN jj ELSE 0 >>),
                    Append(out, col[Len(p) + 1]))
    ELSE Append(out, col[Len(p) + 1])

LastRow(p, t, anchored) ==
    RefLastRow(p, t, anchored, 1, [i \in 1..(Len(p) + 1) |-> i - 1], << >>)

\* Edit distance between p and the whole of s
EditDistance(p, s) == LastRow(p, s, TRUE)[Len(s) + 1]

\* BestAt(p, t)[e + 1]: least edit distance between p and a substring of t
\* that ends at offset e, for e in 0..Len(t)
BestAt(p, t) == LastRow(p, t, FALSE)

RECURSIVE SeqMin(_, _)
SeqMin(q, i) == IF i = Len(q) THEN q[i] ELSE Min(q[i], SeqMin(q, i + 1))

\* Least edit distance between p and any substring of t (the empty one too)
MinDistance(p, t) == SeqMin(BestAt(p, t), 1)

\* The ends e >= 1 at which a substring at distance d from p ends, in order
EndsAtDistance(row, d) ==
    LET F[e \in 0..(Len(row) - 1)] ==
            IF e = 0 THEN << >>
            ELSE IF row[e + 1] = d THEN Append(F[e - 1], e) ELSE F[e - 1]
    IN  F[Len(row) - 1]

\* The offsets at which p occurs literally in t, in order
Occurrences(p, t) ==
    LET F[i \in -1..(Len(t) - Len(p))] ==
            IF i = -1 THEN << >>
            ELSE IF SubSeq(t, i + 1, i + Len(p)) = p THEN Append(F[i - 1], i)
            ELSE F[i - 1]
    IN  IF Len(p) > Len(t) THEN << >> ELSE F[Len(t) - Len(p)]

\* ------------------------------------------------------------------------
\* Properties of search
\* ------------------------------------------------------------------------

\* The call of search has returned.
SearchDone == pc = "done" /\ Len(result) = 1

\* The budget the caller asked for
k == configs[1].maxErrors

Ends(matches) == [i \in 1..Len(matches) |-> matches[i].end]

\* C1: the errors of every match returned by search equal the edit distance
\* between the pattern and the substring text[start:end] of the match.
C1_ErrorsAreEditDistance ==
    SearchDone =>
        \A i \in 1..Len(result[1]) :
            result[1][i].errors =
                EditDistance(configs[1].pattern,
                             Slice(text, result[1][i].start, result[1][i].end))

\* C2: when search returns matches, their errors equal the least edit distance
\* between the pattern and any substring of the text.
C2_ErrorsAreGlobalMinimum ==
    (SearchDone /\ result[1] # << >>) =>
        \A i \in 1..Len(result[1]) :
            result[1][i].errors = MinDistance(configs[1].pattern, text)

\* C3: for a non-empty text and pattern whose least distance d is within the
\* budget, every end e >= 1 of a substring at distance d is the end of a
\* returned match.
C3_AllBestEndsReturned ==
    (SearchDone /\ text # << >> /\ configs[1].pattern # << >>
        /\ MinDistance(configs[1].pattern, text) <= k) =>
        \A e \in Range(EndsAtDistance(BestAt(configs[1].pattern, text),
                                      MinDistance(configs[1].pattern, text))) :
            \E i \in 1..Len(result[1]) : result[1][i].end = e

\* C4: with budget 0 and a non-empty pattern, search returns exactly one match
\* [start i, end i + Len(pattern), errors 0] per literal occurrence i.
C4_ExactOccurrences ==
    (SearchDone /\ k = 0 /\ configs[1].pattern # << >>) =>
        result[1] =
            [n \in 1..Len(Occurrences(configs[1].pattern, text)) |->
                [start |-> Occurrences(configs[1].pattern, text)[n],
                 end |-> Occurrences(configs[1].pattern, text)[n] + Len(configs[1].pattern),
                 errors |-> 0]]

\* C5: every match returned by search has 0 <= start <= end <= Len(text) and
\* 0 <= errors <= the budget asked for.
C5_MatchesWellFormed ==
    SearchDone =>
        \A i \in 1..Len(result[1]) :
            /\ 0 <= result[1][i].start
            /\ result[1][i].start <= result[1][i].end
            /\ result[1][i].end <= Len(text)
            /\ 0 <= result[1][i].errors
            /\ result[1][i].errors <= k

\* C5 witness: a search that returned matches, one of them with errors and a
\* start before its end
C5_Witness ==
    /\ SearchDone
    /\ \E i \in 1..Len(result[1]) :
          result[1][i].errors > 0 /\ result[1][i].start < result[1][i].end

\* C6: when no substring of the text is within the budget of the pattern,
\* search returns the empty list.
C6_NoFalsePositive ==
    (SearchDone /\ MinDistance(configs[1].pattern, text) > k) => result[1] = << >>

\* The match ends and error counts of a brute-force search that reports the
\* ends of least error count, when that count is within the budget
ReferenceEnds(p, t, budget) ==
    IF t = << >> \/ SeqMin(Tail(BestAt(p, t)), 1) > Min(budget, Len(p)) THEN << >>
    ELSE [n \in 1..Len(EndsAtDistance(BestAt(p, t), SeqMin(Tail(BestAt(p, t)), 1))) |->
            [end |-> EndsAtDistance(BestAt(p, t), SeqMin(Tail(BestAt(p, t)), 1))[n],
             errors |-> SeqMin(Tail(BestAt(p, t)), 1)]]

\* C7: for a pattern of one block width or more, the ends and error counts
\* returned by search are those of the brute-force reference.
C7_WordBoundaryAgreesWithReference ==
    (SearchDone /\ Len(configs[1].pattern) >= w) =>
        [i \in 1..Len(result[1]) |->
            [end |-> result[1][i].end, errors |-> result[1][i].errors]]
        = ReferenceEnds(configs[1].pattern, text, k)

\* C10: for a non-empty pattern and a budget of its length or more, search
\* returns the list it returns for a budget of exactly the pattern's length.
C10_BudgetClamped ==
    (SearchDone /\ configs[1].pattern # << >> /\ k >= Len(configs[1].pattern)) =>
        result[1] = search(text, configs[1].pattern, Len(configs[1].pattern))

\* C10 witness: a budget a word size above the pattern's length, and matches
C10_Witness ==
    /\ SearchDone
    /\ configs[1].pattern # << >>
    /\ k >= Len(configs[1].pattern) + w
    /\ result[1] # << >>


\* ------------------------------------------------------------------------
\* Properties of multiSearch
\* ------------------------------------------------------------------------

\* The call of multiSearch has returned.
MultiDone == pc = "done" /\ Len(result) = Len(configs)

\* Offset e lies within one of the regions.
InSomeRegion(e) ==
    \E q \in 1..Len(regions) : regions[q].start <= e /\ e <= regions[q].end

\* C8: the end of every match that search finds for one of the patterns, with
\* that pattern's budget, lies within one of the regions of multiSearch.
C8_RegionsHoldEveryMatchEnd ==
    MultiDone =>
        \A i \in 1..Len(configs) :
            \A e \in Range(Ends(search(text, configs[i].pattern, configs[i].maxErrors))) :
                InSomeRegion(e)

\* C9: multiSearch of "one two three four five six" for "one", "twwo" and
\* "fivve" with up to 2 errors each returns [0, 3) with 0 errors, [4, 7) with
\* 1 error and [19, 23) with 1 error, each alone in its list.
C9_SixWordsScenario ==
    (MultiDone /\ text = SixWords /\ configs = SixWordsConfigs) =>
        result = << << [start |-> 0, end |-> 3, errors |-> 0] >>,
                    << [start |-> 4, end |-> 7, errors |-> 1] >>,
                    << [start |-> 19, end |-> 23, errors |-> 1] >> >>

\* C9 witness: the call of the scenario has returned
C9_Witness == MultiDone /\ text = SixWords /\ configs = SixWordsConfigs

\* ------------------------------------------------------------------------
\* Degenerate inputs, order, regions, usage example
\* ------------------------------------------------------------------------

\* C11: search returns the empty list when the pattern is empty or the text
\* is empty, whatever the budget.
C11_DegenerateInputsReturnNothing ==
    (SearchDone /\ (configs[1].pattern = << >> \/ text = << >>)) =>
        result[1] = << >>

\* C11 witness: a search for the empty pattern in a text that is not empty,
\* with a budget, has returned
C11_Witness ==
    SearchDone /\ configs[1].pattern = << >> /\ text # << >> /\ k > 0

\* The ends of the list grow strictly.
StrictlyIncreasing(q) == \A i \in 1..(Len(q) - 1) : q[i] < q[i + 1]

\* C12: in every list returned by search or by multiSearch for a pattern, the
\* ends of the matches are strictly increasing.
C12_EndsStrictlyIncreasing ==
    \A i \in 1..Len(result) : StrictlyIncreasing(Ends(result[i]))

\* C12 witness: a returned list of two matches or more
C12_Witness ==
    pc = "done" /\ \E i \in 1..Len(result) : Len(result[i]) >= 2

\* Every region lies within the text and is not empty, and each one ends
\* before the next one starts.
RegionsMerged(rs) ==
    /\ \A q \in 1..Len(rs) :
          0 <= rs[q].start /\ rs[q].start < rs[q].end /\ rs[q].end <= Len(text)
    /\ \A q \in 1..(Len(rs) - 1) : rs[q].end < rs[q + 1].start

\* C13: the regions of the region filter are merged, separate and increasing
\* after every column of its scan, and so are the regions multiSearch returns.
C13_RegionsMerged ==
    /\ pc = "filterColumn" => RegionsMerged(st.regions)
    /\ pc \notin {"findMatchRegions", "filterColumn"} => RegionsMerged(regions)

\* C13 witness: the filter holds two regions, the second next to a column
\* that was not flagged
C13_Witness ==
    /\ pc = "filterColumn"
    /\ Len(st.regions) >= 2
    /\ st.regions[Len(st.regions)].end = j

\* C14: search("Four score and seven", "annd", 2) returns the one match
\* [start 11, end 14, errors 1].
C14_UsageExample ==
    (SearchDone /\ text = FourScore /\ configs[1].pattern = Annd /\ k = 2) =>
        result[1] = << [start |-> 11, end |-> 14, errors |-> 1] >>

\* C14 witness: the call of the usage example has returned
C14_Witness ==
    SearchDone /\ text = FourScore /\ configs[1].pattern = Annd /\ k = 2

\* ------------------------------------------------------------------------
\* Calls made one after the other
\* ------------------------------------------------------------------------

\* C15: whatever calls ran before it, a call of search returns the list that
\* search returns for its arguments alone, and a call of multiSearch the
\* lists and the regions that multiSearch returns for its arguments alone.
C15_CallsAreIsolated ==
    pc = "done" =>
        IF Len(configs) = 1
        THEN result = << search(text, configs[1].pattern, configs[1].maxErrors) >>
        ELSE /\ result = multiSearch(text, configs).matches
             /\ regions = multiSearch(text, configs).regions

\* C15 witness: a call made after another call has returned matches
C15_Witness ==
    /\ pc = "done"
    /\ calls > 1
    /\ \E i \in 1..Len(result) : result[i] # << >>

\* ------------------------------------------------------------------------
\* The ratchet
\* ------------------------------------------------------------------------

\* A scan of findMatchEnds is running.
Scanning == pc \in {"region", "column"}

\* The step is a column of the scan that recorded a match.
MatchColumn == pc = "column" /\ j' = j + 1 /\ st'.matches # st.matches

LastMatch(matches) == matches[Len(matches)]

\* C16: the threshold of a scan starts at min(k, Len(pattern)), never rises
\* from column to column or from region to region, and changes only at a
\* column that records a match, where it becomes the errors of that match.
C16_RatchetStep ==
    /\ (pc = "findMatchEnds" /\ pc' = "region") =>
           st'.maxErrors = Min(configs[pidx].maxErrors, Len(pattern))
    /\ Scanning =>
           /\ st'.maxErrors <= st.maxErrors
           /\ st'.maxErrors # st.maxErrors => MatchColumn
    /\ MatchColumn =>
           /\ LastMatch(st'.matches).end = j + 1
           /\ LastMatch(st'.matches).errors = st'.maxErrors

C16_RatchetMonotone == [][C16_RatchetStep]_vars

\* C16 witness: the threshold of a scan of the second region or a later one
\* is below the budget the scan started with
C16_Witness ==
    /\ pc = "column"
    /\ r > 1
    /\ st.matches # << >>
    /\ st.maxErrors < Min(configs[pidx].maxErrors, Len(pattern))

\* C17: a column that records a match of fewer errors than the threshold
\* leaves that match alone in the list; after every step of a scan every
\* match of the list has the threshold as its errors, and every match of a
\* returned list has the same errors.
C17_PruneStep ==
    /\ (MatchColumn /\ LastMatch(st'.matches).errors < st.maxErrors) =>
           Len(st'.matches) = 1
    /\ (MatchColumn /\ LastMatch(st'.matches).errors >= st.maxErrors) =>
           SubSeq(st'.matches, 1, Len(st'.matches) - 1) = st.matches
    /\ Scanning =>
           \A i \in 1..Len(st'.matches) : st'.matches[i].errors = st'.maxErrors
    /\ \A i \in 1..Len(result') :
           \A m, n \in 1..Len(result'[i]) :
               result'[i][m].errors = result'[i][n].errors

C17_RatchetPrunes == [][C17_PruneStep]_vars

\* C17 witness: the list holds one match, and a column before it was within
\* the budget the scan started with: its match was discarded
C17_Witness ==
    /\ pc = "column"
    /\ Len(pattern) < w
    /\ Len(st.matches) = 1
    /\ \E e \in 1..(st.matches[1].end - 1) :
          BestAt(pattern, text)[e + 1] <= Min(configs[pidx].maxErrors, Len(pattern))

\* ------------------------------------------------------------------------
\* Growth of the window
\* ------------------------------------------------------------------------

\* Width of block y of a pattern of length len: w, and for the last block
\* the rest of len by w, or w when there is no rest
BlockWidth(y, bMax, len) ==
    IF y < bMax THEN w ELSE IF len % w = 0 THEN w ELSE len % w

\* The blocks 0..y of the column that follows state s
BlocksOf(s, peq, len) ==
    AdvanceBlocks([P |-> s.P, M |-> s.M, lastRowMask |-> LastRowMask(len)],
                  peq, s.score, 0, s.y, 0)

\* The transition of the block y + 1 the window grows to, after the blocks a
NewBlockOf(s, a, peq, len) ==
    advanceBlock([P |-> SetAt(a.P, s.y + 1, AllOnes), M |-> SetAt(a.M, s.y + 1, {}),
                  lastRowMask |-> LastRowMask(len)],
                 peq, s.y + 1, a.carry)

\* score[y - 1] + blockWidth - carry + BlockTransition(y, carry) for the block
\* y = s.y + 1
GrownScoreOf(s, a, peq, len) ==
    a.score[s.y] + BlockWidth(s.y + 1, bMaxOf(len), len) - a.carry
    + NewBlockOf(s, a, peq, len).hOut

GrownScore(s, peq, len) == GrownScoreOf(s, BlocksOf(s, peq, len), peq, len)

\* The step is a column in which the window grew.
WindowGrew == j' = j + 1 /\ st'.y = st.y + 1

\* C18: when the window grows to block y, in findMatchEnds and in
\* findMatchRegions, score[y] becomes score[y - 1] + blockWidth - carry + the
\* output of the block's transition, with blockWidth 32 for an inner block
\* and, for the last block, the length modulo 32, or 32 when that is 0.
C18_GrowthStep ==
    /\ (pc = "column" /\ WindowGrew) =>
           st'.score[st'.y] =
               GrownScore(st, LookupPeq(pattern, text[j + 1]), Len(pattern))
    /\ (pc = "filterColumn" /\ WindowGrew) =>
           st'.score[st'.y] =
               GrownScore(st, LookupCombinedPeq(PatternsOf(configs), text[j + 1]),
                          maxPatternLen(PatternsOf(configs)))

C18_GrowthScore == [][C18_GrowthStep]_vars

\* The same, for the patterns whose last block is not full
C18_GrowthStepPartialBlock ==
    ((pc = "column" /\ Len(pattern) % w # 0)
        \/ (pc = "filterColumn" /\ maxPatternLen(PatternsOf(configs)) % w # 0)) =>
        C18_GrowthStep

C18_GrowthScorePartialBlock == [][C18_GrowthStepPartialBlock]_vars

\* ------------------------------------------------------------------------
\* advanceBlock and the matrix of edit distances
\* ------------------------------------------------------------------------

\* Row i of the pattern (1..len) is bit (i - 1) % w of block (i - 1) \div w.
BitP(s, i) == ((i - 1) % w) \in s.P[(i - 1) \div w]

BitM(s, i) == ((i - 1) % w) \in s.M[(i - 1) \div w]

\* The vertical delta D[i] - D[i - 1] that P and M hold for row i
DeltaOf(s, i) == (IF BitP(s, i) THEN 1 ELSE 0) - (IF BitM(s, i) THEN 1 ELSE 0)

\* The column D[0..len] that P and M hold, D[0] = 0, as the elements
\* 1..len + 1
RECURSIVE DecodeFrom(_, _, _)
DecodeFrom(s, len, acc) ==
    IF Len(acc) = len + 1 THEN acc
    ELSE DecodeFrom(s, len, Append(acc, acc[Len(acc)] + DeltaOf(s, Len(acc))))

Decode(s, len) == DecodeFrom(s, len, <<0>>)

\* The bottom row of block b
Bottom(b, len) == Min((b + 1) * w, len)

\* Every block is active, and P, M and score hold the column col: the score
\* of each block is the element of its bottom row.
HoldsColumn(s, col, len) ==
    /\ s.y = bMaxOf(len)
    /\ \A i \in 1..len : ~(BitP(s, i) /\ BitM(s, i))
    /\ \A b \in 0..bMaxOf(len) : s.score[b] = col[Bottom(b, len) + 1]

\* s2 follows s by a column whose matrix column is col2, col being the
\* column before: the scores of the bottom rows, the bits of P and M for the
\* rows of the pattern, and the output of the first and of the last block
RefinesColumn(s, s2, col, col2, peq, len) ==
    /\ \A b \in 0..bMaxOf(len) : s2.score[b] = col2[Bottom(b, len) + 1]
    /\ \A i \in 1..len :
          /\ BitP(s2, i) <=> (col2[i + 1] - col2[i] = 1)
          /\ BitM(s2, i) <=> (col2[i + 1] - col2[i] = -1)
    /\ advanceBlock([P |-> s.P, M |-> s.M, lastRowMask |-> LastRowMask(len)],
                    peq, 0, 0).hOut
          = col2[Bottom(0, len) + 1] - col[Bottom(0, len) + 1]
    /\ BlocksOf(s, peq, len).carry = col2[len + 1] - col[len + 1]

RefinesFrom(s, s2, col, p, c) ==
    RefinesColumn(s, s2, col, RefColumn(p, c, col, <<0>>), LookupPeq(p, c), Len(p))

\* C19: a region starts with the column D[i][0] = i when every block is
\* active; a column that starts with every block active, P, M and score
\* holding a column of the matrix, ends with P, M and score holding the next
\* column of the matrix (D[0][j] = 0), and the outputs of the blocks are the
\* horizontal deltas of their bottom rows; for a pattern of one block the
\* score is D[m][j] after every column j.
C19_RefinementStep ==
    /\ (pc = "region" /\ pc' = "column" /\ st'.y = bMaxOf(Len(pattern))) =>
           /\ HoldsColumn(st', Decode(st', Len(pattern)), Len(pattern))
           /\ Decode(st', Len(pattern)) = [i \in 1..(Len(pattern) + 1) |-> i - 1]
    /\ (/\ pc = "column"
        /\ j' = j + 1
        /\ HoldsColumn(st, Decode(st, Len(pattern)), Len(pattern))) =>
           RefinesFrom(st, st', Decode(st, Len(pattern)), pattern, text[j + 1])
    /\ (pc = "column" /\ j' = j + 1 /\ Len(pattern) <= w) =>
           st'.score[0] =
               BestAt(pattern, SubSeq(text, regions[r].start + 1, j + 1))
                   [j + 2 - regions[r].start]

C19_BlockTransitionRefines == [][C19_RefinementStep]_vars

\* C19 witness: a pattern of two blocks, past the first block of the text,
\* with every block active and a column that has a negative vertical delta
\* in the second block
C19_Witness ==
    /\ pc = "column"
    /\ Len(pattern) > w
    /\ j > w
    /\ st.M[1] # {}
    /\ HoldsColumn(st, Decode(st, Len(pattern)), Len(pattern))

\* ------------------------------------------------------------------------
\* The starts of the matches
\* ------------------------------------------------------------------------

Reversed(s) == [i \in 1..Len(s) |-> s[Len(s) + 1 - i]]

\* The ends found by the scan of the reversed slice of the text before m.end
\* with the reversed pattern and the budget m.errors
ReversedEnds(t, p, m) ==
    Ends(findMatchEnds(
        Reversed(SubSeq(t, Max(0, m.end - Len(p) - m.errors) + 1, m.end)),
        Reversed(p), m.errors,
        << [start |-> 0, end |-> m.end - Max(0, m.end - Len(p) - m.errors)] >>))

LargestOf(S) == CHOOSE x \in S : \A y \in S : y <= x

\* The start of m: its end less the largest reversed end, or its end
StartFor(m, ends) ==
    IF ends = << >> THEN m.end ELSE m.end - LargestOf(Range(ends))

\* C20: findMatchStarts returns one match per match end, in order, with the
\* same end and errors; the start is the end less the largest end found by
\* the scan of the reversed slice text[max(0, end - Len(pattern) - errors),
\* end) for the reversed pattern with budget errors, or the end when that
\* scan finds nothing.
C20_ResolveStep ==
    (pc = "findMatchStarts" /\ pc' # pc) =>
        /\ Len(result') = Len(result) + 1
        /\ Len(result'[Len(result')]) = Len(st.matches)
        /\ \A i \in 1..Len(st.matches) :
              /\ result'[Len(result')][i].end = st.matches[i].end
              /\ result'[Len(result')][i].errors = st.matches[i].errors
              /\ result'[Len(result')][i].start =
                    StartFor(st.matches[i], ReversedEnds(text, pattern, st.matches[i]))

C20_StartsResolved == [][C20_ResolveStep]_vars

\* C20 witness: a returned match whose reversed scan found two ends or more
C20_Witness ==
    /\ pc = "done"
    /\ Len(result) >= 1
    /\ \E i \in 1..Len(result[1]) :
          /\ Len(ReversedEnds(text, configs[1].pattern, result[1][i])) >= 2
          /\ result[1][i].start < result[1][i].end

\* ------------------------------------------------------------------------
\* The superimposed profile
\* ------------------------------------------------------------------------

\* The symbols of the patterns and of the text, and one that is in neither
ProfileSymbols == CombinedChars(PatternsOf(configs)) \cup Range(text) \cup {0}

\* C21: for every symbol c, in a pattern or not, and every position idx
\* below the length of the longest pattern, the bit of idx in the profile
\* word the region filter uses for c is set exactly when some pattern ends
\* at or before idx or has c at idx; the words hold every bit of the profile
\* of each pattern alone.
C21_SuperimposedProfile ==
    pc = "filterColumn" =>
        \A c \in ProfileSymbols :
            /\ \A idx \in 0..(maxPatternLen(PatternsOf(configs)) - 1) :
                  ((idx % w) \in LookupCombinedPeq(PatternsOf(configs), c)[idx \div w])
                  <=> (\E i \in 1..Len(configs) :
                          \/ Len(configs[i].pattern) <= idx
                          \/ configs[i].pattern[idx + 1] = c)
            /\ \A i \in 1..Len(configs) :
                  \A b \in DOMAIN LookupPeq(configs[i].pattern, c) :
                      LookupPeq(configs[i].pattern, c)[b]
                          \subseteq LookupCombinedPeq(PatternsOf(configs), c)[b]

\* C21 witness: the filter is at a character of the text that no pattern
\* holds, with patterns of two lengths
C21_Witness ==
    /\ pc = "filterColumn"
    /\ j < Len(text)
    /\ text[j + 1] \notin CombinedChars(PatternsOf(configs))
    /\ minPatternLen(PatternsOf(configs)) < maxPatternLen(PatternsOf(configs))

\* ------------------------------------------------------------------------
\* The reset at the start of a region
\* ------------------------------------------------------------------------

\* What a scan can read of its state: the budget, the matches, the window
\* top and P, M, score of the blocks of the window
Visible(s) ==
    [maxErrors |-> s.maxErrors, matches |-> s.matches, y |-> s.y,
     P |-> [b \in 0..s.y |-> s.P[b]],
     M |-> [b \in 0..s.y |-> s.M[b]],
     score |-> [b \in 0..s.y |-> s.score[b]]]

\* The state at the start of a region of a scan that has run no region
\* before, with the budget and the matches of s
FreshRegion(s, p) ==
    ResetWindow(Len(p), [NewScan(p, s.maxErrors) EXCEPT !.matches = s.matches])

\* C22: the start of a region sets y to max(0, ceil(maxErrors / 32) - 1) for
\* the budget of that moment, P to all ones and M to 0 for the blocks 0..y,
\* score[b] to (b + 1) * 32 for the blocks b <= y but the last and
\* score[bMax] to the pattern's length; the budget and the matches are kept;
\* and the scan of the region ends as it ends from a state that holds
\* nothing of an earlier region.
C22_ResetStep ==
    (pc = "region" /\ pc' = "column") =>
        /\ st'.y = Max(0, CeilDiv(st.maxErrors, w) - 1)
        /\ \A b \in 0..st'.y :
              /\ st'.P[b] = AllOnes
              /\ st'.M[b] = {}
              /\ b # bMaxOf(Len(pattern)) => st'.score[b] = (b + 1) * w
        /\ st'.score[bMaxOf(Len(pattern))] = Len(pattern)
        /\ st'.maxErrors = st.maxErrors
        /\ st'.matches = st.matches
        /\ Visible(ScanFrom(text, pattern, st', regions[r].start, regions[r].end))
              = Visible(ScanFrom(text, pattern, FreshRegion(st, pattern),
                                 regions[r].start, regions[r].end))

C22_RegionReset == [][C22_ResetStep]_vars

\* C22 witness: the second region of a pattern of three blocks starts with
\* the window at block 0 and, above the window, a score and vertical deltas
\* left by the first region
C22_Witness ==
    /\ pc = "column"
    /\ r > 1
    /\ j = regions[r].start
    /\ bMaxOf(Len(pattern)) >= 2
    /\ st.y = 0
    /\ st.score[1] # 0
    /\ st.P[1] # {}
    /\ st.maxErrors > 0

\* ------------------------------------------------------------------------
\* multiSearch and search
\* ------------------------------------------------------------------------

\* C23: multiSearch returns one list per config, and list i is the list
\* search returns for the text, the pattern and the budget of config i.
C23_MultiSearchAgreesWithSearch ==
    MultiDone =>
        /\ Len(result) = Len(configs)
        /\ \A i \in 1..Len(configs) :
              result[i] = search(text, configs[i].pattern, configs[i].maxErrors)

\* The same, for the calls in which the patterns have one length, none of a
\* whole number of blocks above one
C23_AgreesForOneLength ==
    (/\ MultiDone
     /\ Len(configs) > 0
     /\ minPatternLen(PatternsOf(configs)) = maxPatternLen(PatternsOf(configs))
     /\ (maxPatternLen(PatternsOf(configs)) <= w
            \/ maxPatternLen(PatternsOf(configs)) % w # 0)) =>
        C23_MultiSearchAgreesWithSearch

\* ------------------------------------------------------------------------
\* Budgets and lengths of matches
\* ------------------------------------------------------------------------

\* The pattern has one block, or its last block is not full.
LastBlockPartial(p) == Len(p) <= w \/ Len(p) % w # 0

\* C24: for a non-empty pattern whose least edit distance d to a substring
\* of the text is within the budget, search returns the list it returns for
\* the budget d; so all budgets from d on return the same list.
C24_BudgetIndependence ==
    (/\ SearchDone
     /\ configs[1].pattern # << >>
     /\ MinDistance(configs[1].pattern, text) <= k) =>
        result[1] = search(text, configs[1].pattern,
                           MinDistance(configs[1].pattern, text))

\* The same, for the patterns whose last block is not full
C24_BudgetIndependencePartialBlock ==
    LastBlockPartial(configs[1].pattern) => C24_BudgetIndependence

\* C25: every match returned by search for a non-empty pattern has a length
\* end - start of at least Len(pattern) - errors and at most
\* Len(pattern) + errors.
C25_MatchLengthBound ==
    (SearchDone /\ configs[1].pattern # << >>) =>
        \A i \in 1..Len(result[1]) :
            /\ Len(configs[1].pattern) - result[1][i].errors
                  <= result[1][i].end - result[1][i].start
            /\ result[1][i].end - result[1][i].start
                  <= Len(configs[1].pattern) + result[1][i].errors

\* The same, for the patterns whose last block is not full
C25_MatchLengthBoundPartialBlock ==
    LastBlockPartial(configs[1].pattern) => C25_MatchLengthBound

\* ------------------------------------------------------------------------
\* The window and the scores
\* ------------------------------------------------------------------------

\* bMax of the scan that has st after the step: of the pattern, or of the
\* longest pattern in the region filter
ScanBMax ==
    IF pc' = "filterColumn" THEN bMaxOf(maxPatternLen(PatternsOf(configs)))
    ELSE bMaxOf(Len(pattern))

\* C26: the window top of a scan of findMatchEnds and of findMatchRegions
\* starts at max(0, ceil(min(k, len) / 32) - 1), stays within 0..bMax, and
\* grows by at most one block in a column; so the blocks 0..y that a column
\* hands to advanceBlock, and the block y + 1 it grows to, are in 0..bMax.
C26_WindowStep ==
    /\ (pc = "region" /\ pc' = "column" /\ r = 1) =>
           st'.y = Max(0, CeilDiv(Min(configs[pidx].maxErrors, Len(pattern)), w) - 1)
    /\ (pc = "findMatchRegions" /\ pc' = "filterColumn") =>
           st'.y = Max(0, CeilDiv(Min(maxErrorCount(configs),
                                      maxPatternLen(PatternsOf(configs))), w) - 1)
    /\ pc' \in {"column", "filterColumn"} =>
           (0 <= st'.y /\ st'.y <= ScanBMax)
    /\ (pc \in {"column", "filterColumn"} /\ j' = j + 1) =>
           st'.y <= st.y + 1

C26_WindowWithinBlocks == [][C26_WindowStep]_vars

\* The same, for the scans of patterns that are not all empty
C26_WindowStepNonEmpty ==
    (Len(configs) > 0 /\ maxPatternLen(PatternsOf(configs)) > 0) => C26_WindowStep

C26_WindowWithinBlocksNonEmpty == [][C26_WindowStepNonEmpty]_vars

\* Every element of score is the value the code computed: no element has
\* wrapped around 0 (the model holds a wrapped element as a negative number).
ScoreNotWrapped(s) == \A b \in DOMAIN s.score : s.score[b] >= 0

\* C27: no update of score in a scan of findMatchEnds or findMatchRegions
\* yields a value below 0.
C27_NoScoreUnderflow ==
    pc \in {"region", "column", "filterColumn"} => ScoreNotWrapped(st)

\* The same, for the patterns whose last block is not full
C27_NoScoreUnderflowPartialBlock ==
    (/\ pc \in {"region", "column", "filterColumn"}
     /\ LastBlockPartial(IF pc = "filterColumn"
                         THEN Cycle(<<0>>, maxPatternLen(PatternsOf(configs)))
                         ELSE pattern)) => ScoreNotWrapped(st)

\* ------------------------------------------------------------------------
\* The regions after the filter
\* ------------------------------------------------------------------------

\* C28: once the region filter has returned, no step of the scans of the
\* patterns or of findMatchStarts changes the regions or the text; the
\* regions multiSearch returns are those the filter returns for the text,
\* the patterns and the largest budget, and the same for the patterns in the
\* opposite order.
C28_RegionsStep ==
    /\ text' = text
    /\ pc \notin {"findMatchRegions", "filterColumn"} => regions' = regions
    /\ (pc' = "done" /\ Len(configs) > 0) =>
           /\ regions' = findMatchRegions(text, PatternsOf(configs),
                                          maxErrorCount(configs))
           /\ regions' = findMatchRegions(text, Reversed(PatternsOf(configs)),
                                          maxErrorCount(configs))

C28_RegionsReadOnly == [][C28_RegionsStep]_vars

\* C28 witness: multiSearch has returned for two patterns or more, with a
\* region and a match of the last pattern
C28_Witness ==
    /\ MultiDone
    /\ Len(configs) >= 2
    /\ regions # << >>
    /\ result[Len(configs)] # << >>

====
